---- MODULE Spec2Model ----
(***************************************************************************)
(* A model of logger.py: the LogColor string builder and the buffered      *)
(* Logger (log queue, staged message, dynamically registered channels).    *)
(*                                                                         *)
(* A Python str is a sequence of tokens.  Literal fragments of the source  *)
(* are single tokens, names and decimal numbers are sequences of one-      *)
(* character tokens, so that concatenation, join, slicing and casefold are *)
(* computed as the code computes them.                                     *)
(***************************************************************************)
EXTENDS Integers, Sequences, FiniteSets, TLC

(* ------------------------------ bounds --------------------------------- *)

\* Invocations and registrations are offered while the messages admitted
\* so far plus the registrations made after construction are fewer than
\* MaxCalls; a run of deferred invocations (history) records as many.
MaxCalls == 2
\* Depth at which the interpreter raises RecursionError (the interpreter's
\* limit is about 1000; the model only needs it to be finite).
RecursionLimit == 2

(* ------------------------------ strings -------------------------------- *)

\* Python's None for an optional numeric parameter.
None == -1

Truthy(x) == x # None /\ x # 0

Digit(d) == <<"0", "1", "2", "3", "4", "5", "6", "7", "8", "9">>[d + 1]

RECURSIVE Dec(_)
\* str(n) of a non-negative int, as an f-string renders it.
Dec(n) == IF n < 10 THEN <<Digit(n)>> ELSE Dec(n \div 10) \o <<Digit(n % 10)>>

RECURSIVE Join(_, _)
\* sep.join(text) for a sequence text of strings.
Join(text, sep) ==
  IF Len(text) = 0 THEN << >>
  ELSE IF Len(text) = 1 THEN text[1]
  ELSE text[1] \o sep \o Join(Tail(text), sep)

UPPER == <<"A", "B", "C", "D", "E", "F", "G", "H", "I", "J", "K", "L", "M",
           "N", "O", "P", "Q", "R", "S", "T", "U", "V", "W", "X", "Y", "Z">>
LOWER == <<"a", "b", "c", "d", "e", "f", "g", "h", "i", "j", "k", "l", "m",
           "n", "o", "p", "q", "r", "s", "t", "u", "v", "w", "x", "y", "z">>

Lower(c) ==
  IF \E i \in 1..26 : UPPER[i] = c
  THEN LOWER[CHOOSE i \in 1..26 : UPPER[i] = c]
  ELSE c

\* str.casefold() on the (ASCII) names of the model.
casefold(name) == [i \in 1..Len(name) |-> Lower(name[i])]

\* name[0:2]
Prefix2(name) == SubSeq(name, 1, IF Len(name) < 2 THEN Len(name) ELSE 2)

(* ------------------------------ LogColor ------------------------------- *)

SPACE == <<" ">>
NEW_LINE == <<"\n">>
END_FORMAT == <<"\\033[", "0", "m">>

\* LogColor.__format
LogColor_format(start, text, end, join) == start \o Join(text, join) \o end

\* The modifier codes built by LogColor.__init__, in the order of the source.
Mods(bold, italic, underline, blink, strikethrough, invert) ==
     (IF bold THEN <<";", "1">> ELSE << >>)
  \o (IF italic THEN <<";", "3">> ELSE << >>)
  \o (IF underline THEN <<";", "4">> ELSE << >>)
  \o (IF blink THEN <<";", "5">> ELSE << >>)
  \o (IF strikethrough THEN <<";", "9">> ELSE << >>)
  \o (IF invert THEN <<";", "7">> ELSE << >>)

\* The color sequence chosen by LogColor.__init__.
InitColor(red, green, blue, code) ==
  IF red # None /\ green # None /\ blue # None
  THEN <<"\\033[", "3", "8", ";", "2", ";">> \o Dec(red) \o <<";">>
         \o Dec(green) \o <<";">> \o Dec(blue)
  ELSE IF Truthy(code) THEN <<"\\033[">> \o Dec(code)
  ELSE <<"\\033[", "0">>

\* LogColor.__init__: the fields read later are __color and __preformated.
LogColor(red, green, blue, code, bold, italic, underline, blink, strikethrough, invert) ==
  LET c == InitColor(red, green, blue, code)
  IN  [color |-> c,
       preformated |-> c \o Mods(bold, italic, underline, blink,
                                 strikethrough, invert) \o <<"m">>]

\* LogColor.change_color: __color is reassigned, __preformated is not.
change_color(self, red, green, blue, code) ==
  [self EXCEPT !.color =
     IF Truthy(red) /\ Truthy(green) /\ Truthy(blue)
     THEN <<"\\033[", "3", "3", ";", "2", ";">> \o Dec(red) \o <<";">>
            \o Dec(green) \o <<";">> \o Dec(blue)
     ELSE IF Truthy(code) THEN <<"\\033[">> \o Dec(code)
     ELSE <<"\\033[", "0">>]

\* Mutant of standard: the color alone is the prefix.
standard_color_only(self, args, join) ==
  LogColor_format(self.color \o <<"m">>, args, END_FORMAT, join)

\* LogColor.standard
standard(self, args, join) ==
  LogColor_format(self.preformated, args, END_FORMAT, join)

\* LogColor.plain
plain(self, args, join) ==
  LogColor_format(self.color \o <<"m">>, args, END_FORMAT, join)

\* LogColor.format; its mods are built by the same six tests as in __init__.
format(self, text, bold, italic, underline, blink, strikethrough, invert) ==
  self.color \o Mods(bold, italic, underline, blink, strikethrough, invert)
    \o <<"m">> \o text \o END_FORMAT

PlainColor ==
  LogColor(None, None, None, None, FALSE, FALSE, FALSE, FALSE, FALSE, FALSE)
DEFAULT_DEBUG_LOG_COLOR ==
  LogColor(33, 192, 232, None, FALSE, TRUE, FALSE, FALSE, FALSE, FALSE)
DEFAULT_INFO_LOG_COLOR ==
  LogColor(222, 222, 222, None, FALSE, FALSE, FALSE, FALSE, FALSE, FALSE)
DEFAULT_WARNING_LOG_COLOR ==
  LogColor(255, 245, 23, None, TRUE, FALSE, FALSE, FALSE, FALSE, FALSE)
DEFAULT_ERROR_LOG_COLOR ==
  LogColor(241, 25, 44, None, TRUE, FALSE, FALSE, FALSE, FALSE, FALSE)
DEFAULT_CRITICAL_LOG_COLOR ==
  LogColor(241, 25, 44, None, TRUE, FALSE, FALSE, FALSE, FALSE, TRUE)

(* ------------------------------- names --------------------------------- *)

NameDebug == <<"D", "e", "b", "u", "g">>
NameInfo == <<"I", "n", "f", "o">>
NameWarning == <<"W", "a", "r", "n", "i", "n", "g">>
NameError == <<"E", "r", "r", "o", "r">>
NameCritical == <<"C", "r", "i", "t", "i", "c", "a", "l">>
NameDEBUG == <<"D", "E", "B", "U", "G">>
NamePrint == <<"P", "r", "i", "n", "t">>
NamePrivate == <<"_", "_", "x">>
NameClass == <<"_", "_", "c", "l", "a", "s", "s", "_", "_">>
NameDict == <<"_", "_", "d", "i", "c", "t", "_", "_">>

\* The attribute name of the method Logger.print.
AttrPrint == <<"p", "r", "i", "n", "t">>

(* ------------------------------- Logger -------------------------------- *)

WARNING_TEXT ==
  <<"LOGGER WARNING::DYNAMIC LOGGERS ARE NOT PRIVATE, THIS LOGGER MAY BEHAVE DIFFERENTLY THAN EXPECTED.">>

\* Attributes of an instance that the interpreter refuses to bind to a
\* function: setattr raises TypeError for them.
UnsettableAttrs == {NameClass, NameDict}

NoAttrs == [k \in {} |-> k]

(***************************************************************************)
(* A logger is a record s: the private fields of the instance (level,      *)
(* suppress_default_logger_warnings, log_queue, queued_msg), the callables *)
(* that setattr bound on it (attrs, keyed by attribute name), the calls    *)
(* made to the builtin print (stdout, one entry per call), the exception   *)
(* that ended the current call (raised), and three history fields that     *)
(* the code does not have: admitted, every message appended to log_queue   *)
(* so far, and qAge / sAge, for each message of log_queue / of queued_msg  *)
(* the number of cycle_print calls made since it was appended.             *)
(***************************************************************************)

\* Mutant of log: the threshold is compared with > instead of >=.
log_gt(s, message, lvl) ==
  IF lvl > s.level
  THEN [s EXCEPT !.log_queue = Append(@, message),
                 !.admitted = Append(@, message),
                 !.qAge = Append(@, 0)]
  ELSE s

\* Mutant of log: the message is inserted at the head of the queue.
log_prepend(s, message, lvl) ==
  IF lvl >= s.level
  THEN [s EXCEPT !.log_queue = <<message>> \o @,
                 !.admitted = Append(@, message),
                 !.qAge = <<0>> \o @]
  ELSE s

\* Logger.__log
log(s, message, lvl) ==
  IF lvl >= s.level
  THEN [s EXCEPT !.log_queue = Append(@, message),
                 !.admitted = Append(@, message),
                 !.qAge = Append(@, 0)]
  ELSE s

\* Mutant of prepare_print: the queue is not reset after it was joined.
prepare_print_keep(s) ==
  IF Len(s.log_queue) > 0
  THEN [s EXCEPT !.queued_msg =
                    (IF s.queued_msg # << >> THEN s.queued_msg \o <<"\n">>
                     ELSE s.queued_msg) \o Join(s.log_queue, NEW_LINE),
                 !.sAge = s.sAge \o s.qAge]
  ELSE s

\* Mutant of prepare_print: no separator after what was staged before.
prepare_print_nosep(s) ==
  IF Len(s.log_queue) > 0
  THEN [s EXCEPT !.queued_msg = s.queued_msg \o Join(s.log_queue, NEW_LINE),
                 !.log_queue = << >>,
                 !.sAge = s.sAge \o s.qAge,
                 !.qAge = << >>]
  ELSE s

\* Logger.__prepare_print
prepare_print(s) ==
  IF Len(s.log_queue) > 0
  THEN [s EXCEPT !.queued_msg =
                    (IF s.queued_msg # << >> THEN s.queued_msg \o <<"\n">>
                     ELSE s.queued_msg) \o Join(s.log_queue, NEW_LINE),
                 !.log_queue = << >>,
                 !.sAge = s.sAge \o s.qAge,
                 !.qAge = << >>]
  ELSE s

\* Mutant of execute_print: the staged message is cleared without a write.
execute_print_discard(s) ==
  IF s.queued_msg # << >>
  THEN [s EXCEPT !.queued_msg = << >>, !.sAge = << >>]
  ELSE s

\* Mutant of execute_print: the write is made whatever is staged.
execute_print_always(s) ==
  [s EXCEPT !.stdout = Append(@, s.queued_msg),
            !.queued_msg = << >>,
            !.sAge = << >>]

\* Lines 239-243 of __prepare_print, run when the queue was found non-empty:
\* the queue is read and joined onto the staged message.
prepare_join(s) ==
  [s EXCEPT !.queued_msg =
              (IF s.queued_msg # << >> THEN s.queued_msg \o <<"\n">>
               ELSE s.queued_msg) \o Join(s.log_queue, NEW_LINE),
            !.sAge = s.sAge \o s.qAge]

\* Mutant of prepare_reset: the queue is left as it is.
prepare_reset_keep(s) == s

\* Line 244 of __prepare_print: the queue is replaced by an empty list.
prepare_reset(s) == [s EXCEPT !.log_queue = << >>, !.qAge = << >>]

\* Logger.__execute_print
execute_print(s) ==
  IF s.queued_msg # << >>
  THEN [s EXCEPT !.stdout = Append(@, s.queued_msg),
                 !.queued_msg = << >>,
                 !.sAge = << >>]
  ELSE s

\* Mutant of cycle_print: after writing, the queue is staged in the same call.
cycle_print_both(s) ==
  IF s.queued_msg # << >> THEN prepare_print(execute_print(s))
  ELSE prepare_print(s)

\* Mutant of cycle_print: with nothing staged, the queue is staged and
\* written in the same call.
cycle_print_eager(s) ==
  IF s.queued_msg # << >> THEN execute_print(s)
  ELSE execute_print(prepare_print(s))

\* Logger.cycle_print
cycle_print(s) ==
  IF s.queued_msg # << >> THEN execute_print(s) ELSE prepare_print(s)

\* Mutant of print: the staged message is written before the queue is staged.
print_swapped(s) == prepare_print(execute_print(s))

\* Logger.print
print(s) == execute_print(prepare_print(s))

\* Logger.__logger_warning
logger_warning(s, text) ==
  IF ~s.suppress_default_logger_warnings
  THEN [s EXCEPT !.stdout =
                   Append(@, standard(DEFAULT_WARNING_LOG_COLOR, <<text>>, SPACE))]
  ELSE s

\* setattr(self, key, value): binds the attribute on the instance, except
\* for the attributes the interpreter protects.
setattr(s, key, value) ==
  IF key \in UnsettableAttrs
  THEN [s EXCEPT !.raised = "TypeError"]
  ELSE [s EXCEPT !.attrs =
                   [k \in (DOMAIN s.attrs) \cup {key} |->
                      IF k = key THEN value ELSE s.attrs[k]]]

\* The closure dynamic_logger captures name, level, color and
\* force_immideate_print of the add_logging_type call that made it.
Channel(name, lvl, color, force) ==
  [name |-> name, level |-> lvl, color |-> color,
   force_immideate_print |-> force]

\* Mutant of add_logging_type: the channel is bound under its name as given.
add_logging_type_nofold(s, name, lvl, color, force) ==
  LET s1 == IF Prefix2(name) = <<"_", "_">>
            THEN logger_warning(s, WARNING_TEXT)
            ELSE s
  IN  setattr(s1, name, Channel(name, lvl, color, force))

\* Logger.add_logging_type
add_logging_type(s, name, lvl, color, force) ==
  LET s1 == IF Prefix2(name) = <<"_", "_">>
            THEN logger_warning(s, WARNING_TEXT)
            ELSE s
  IN  setattr(s1, casefold(name), Channel(name, lvl, color, force))

\* f'[ {now.to_day_datetime_string()} - {name} ]:'
MetaData(now, name) == <<"[ ", now, " - ">> \o name \o <<" ]:">>

\* color.standard(meta_data, *args, join=join) of dynamic_logger
Message(ch, args, join, now) ==
  standard(ch.color, <<MetaData(now, ch.name)>> \o args, join)

RECURSIVE dynamic_logger_nocheck(_, _, _, _, _, _)
\* Mutant of dynamic_logger: the channel does not test its level (log does).
dynamic_logger_nocheck(s, ch, args, join, now, depth) ==
  IF depth > RecursionLimit THEN [s EXCEPT !.raised = "RecursionError"]
  ELSE LET s1 == log(s, Message(ch, args, join, now), ch.level)
       IN  IF ch.force_immideate_print
           THEN IF AttrPrint \in DOMAIN s1.attrs
                THEN dynamic_logger_nocheck(s1, s1.attrs[AttrPrint], << >>,
                                            SPACE, now, depth + 1)
                ELSE print(s1)
           ELSE s1

RECURSIVE dynamic_logger(_, _, _, _, _, _)
(***************************************************************************)
(* The body of a channel, called at interpreter stack depth `depth`.       *)
(* self.print() is an attribute lookup on the instance: it finds the       *)
(* channel bound under "print" when there is one, and the method           *)
(* Logger.print otherwise; a channel found there is called with no         *)
(* arguments.  The clock reads the same minute throughout one call.        *)
(***************************************************************************)
dynamic_logger(s, ch, args, join, now, depth) ==
  IF depth > RecursionLimit THEN [s EXCEPT !.raised = "RecursionError"]
  ELSE IF ch.level >= s.level
  THEN LET s1 == log(s, Message(ch, args, join, now), ch.level)
       IN  IF ch.force_immideate_print
           THEN IF AttrPrint \in DOMAIN s1.attrs
                THEN dynamic_logger(s1, s1.attrs[AttrPrint], << >>, SPACE,
                                    now, depth + 1)
                ELSE print(s1)
           ELSE s1
  ELSE s

\* Mutant of DEFAULT_FUNCTIONS: Error is force-immediate as well.
DEFAULT_FUNCTIONS_error_forced ==
  << Channel(NameDebug, 0, DEFAULT_DEBUG_LOG_COLOR, FALSE),
     Channel(NameInfo, 25, DEFAULT_INFO_LOG_COLOR, FALSE),
     Channel(NameWarning, 50, DEFAULT_WARNING_LOG_COLOR, FALSE),
     Channel(NameError, 75, DEFAULT_ERROR_LOG_COLOR, TRUE),
     Channel(NameCritical, 100, DEFAULT_CRITICAL_LOG_COLOR, TRUE) >>

\* Logger.__DEFAULT_FUNCTIONS; force_immideate_print is FALSE where the
\* dict leaves it out (value.get('force_immideate_print', False)).
DEFAULT_FUNCTIONS ==
  << Channel(NameDebug, 0, DEFAULT_DEBUG_LOG_COLOR, FALSE),
     Channel(NameInfo, 25, DEFAULT_INFO_LOG_COLOR, FALSE),
     Channel(NameWarning, 50, DEFAULT_WARNING_LOG_COLOR, FALSE),
     Channel(NameError, 75, DEFAULT_ERROR_LOG_COLOR, FALSE),
     Channel(NameCritical, 100, DEFAULT_CRITICAL_LOG_COLOR, TRUE) >>

RECURSIVE Construct(_, _)
\* The loop of Logger.__init__ over initial_logging_functions.
Construct(s, defs) ==
  IF defs = << >> THEN s
  ELSE Construct(add_logging_type(s, defs[1].name, defs[1].level,
                                  defs[1].color, defs[1].force_immideate_print),
                 Tail(defs))

\* Logger.__init__
Logger(lvl, initial_logging_functions, suppress) ==
  Construct([level |-> lvl,
             suppress_default_logger_warnings |-> suppress,
             log_queue |-> << >>,
             queued_msg |-> << >>,
             attrs |-> NoAttrs,
             stdout |-> << >>,
             raised |-> "None",
             admitted |-> << >>,
             qAge |-> << >>,
             sAge |-> << >>],
            initial_logging_functions)

\* Logger(level, ...) with initial_logging_functions left at None: the
\* constructor takes __DEFAULT_FUNCTIONS.
Logger_default(lvl, suppress) == Logger(lvl, DEFAULT_FUNCTIONS, suppress)

(* ------------------------------- inputs -------------------------------- *)

Thresholds == {0, 50}

\* Channel definitions passed to the constructor: none, or three of the
\* default channels (Debug, Warning and the force-immediate Critical).
InitialLists ==
  { << >>,
    << Channel(NameDebug, 0, DEFAULT_DEBUG_LOG_COLOR, FALSE),
       Channel(NameWarning, 50, DEFAULT_WARNING_LOG_COLOR, FALSE),
       Channel(NameCritical, 100, DEFAULT_CRITICAL_LOG_COLOR, TRUE) >> }

\* Channels registered after construction: one that replaces Debug, one
\* named like the method print (deferred or force-immediate), and two with
\* the private prefix.
RegChoices ==
  { Channel(NameDEBUG, 100, PlainColor, FALSE),
    Channel(NamePrint, 100, PlainColor, FALSE),
    Channel(NamePrint, 100, PlainColor, TRUE),
    Channel(NamePrivate, 0, PlainColor, TRUE),
    Channel(NameClass, 100, PlainColor, FALSE) }

\* to_day_datetime_string() of the clock reading.
Times == {"Mon, Nov 2, 2026 1:00 AM", "Mon, Nov 2, 2026 1:01 AM"}
ArgChoices == { << >>, << <<"x">> >> }
Joins == {SPACE}

\* Color arguments of LogColor(...) and change_color(...): none, an RGB
\* triple, a triple with a zero component, a palette code, a triple
\* together with a code, and red alone.
ColorArgs(red, green, blue, code) ==
  [red |-> red, green |-> green, blue |-> blue, code |-> code]
ColorSpecs ==
  { ColorArgs(None, None, None, None),
    ColorArgs(255, 245, 23, None),
    ColorArgs(0, 128, 255, None),
    ColorArgs(None, None, None, 31),
    ColorArgs(1, 2, 3, 31),
    ColorArgs(33, None, None, None) }

\* The six keyword flags bold, italic, underline, blink, strikethrough,
\* invert of LogColor(...) and of format(...).
Flags(bold, italic, underline, blink, strikethrough, invert) ==
  [bold |-> bold, italic |-> italic, underline |-> underline, blink |-> blink,
   strikethrough |-> strikethrough, invert |-> invert]
FlagSets ==
  { Flags(b, i, u, k, s, v) :
      b \in BOOLEAN, i \in BOOLEAN, u \in BOOLEAN, k \in BOOLEAN,
      s \in BOOLEAN, v \in BOOLEAN }
NoFlags == Flags(FALSE, FALSE, FALSE, FALSE, FALSE, FALSE)
\* Flags passed to format(...).
FormatFlagSets ==
  { NoFlags,
    Flags(TRUE, FALSE, FALSE, FALSE, FALSE, FALSE),
    Flags(FALSE, TRUE, TRUE, FALSE, FALSE, TRUE) }

\* *args and join of standard(...) and plain(...).
PartChoices == { << >>, << <<"x">> >>, << <<"a">>, <<"b">> >> }
JoinChoices == { SPACE, <<", ">> }

(* ------------------------------- state --------------------------------- *)

VARIABLES
  level, suppress_default_logger_warnings, log_queue, queued_msg,
  attrs, stdout, raised,
  admitted, qAge, sAge,
  last, run, cycling, nregs,
  style, made, rendered,
  pc, late, lost

vars == <<level, suppress_default_logger_warnings, log_queue, queued_msg,
          attrs, stdout, raised, admitted, qAge, sAge, last, run, cycling,
          nregs, style, made, rendered, pc, late, lost>>

\* The variables of the logger and of its history.
loggerVars ==
  <<level, suppress_default_logger_warnings, log_queue, queued_msg,
    attrs, stdout, raised, admitted, qAge, sAge, last, run, cycling, nregs>>
\* A LogColor object used on its own: the object (style), the arguments
\* it was constructed and last recolored with (made), and the last render
\* call with the string it returned (rendered).
colorVars == <<style, made, rendered>>
\* A second thread inside print or cycle_print: its position (pc), and the
\* positions in `admitted` of the messages appended between its read of
\* the queue and its reset of the queue (late), and of those that the
\* reset then discarded (lost).
threadVars == <<pc, late, lost>>

\* The logger as a record, at the start of a call.
Self ==
  [level |-> level,
   suppress_default_logger_warnings |-> suppress_default_logger_warnings,
   log_queue |-> log_queue,
   queued_msg |-> queued_msg,
   attrs |-> attrs,
   stdout |-> stdout,
   raised |-> "None",
   admitted |-> admitted,
   qAge |-> qAge,
   sAge |-> sAge]

\* The logger becomes r.
Becomes(r) ==
  /\ level' = r.level
  /\ suppress_default_logger_warnings' = r.suppress_default_logger_warnings
  /\ log_queue' = r.log_queue
  /\ queued_msg' = r.queued_msg
  /\ attrs' = r.attrs
  /\ stdout' = r.stdout
  /\ raised' = r.raised
  /\ admitted' = r.admitted
  /\ qAge' = r.qAge
  /\ sAge' = r.sAge

(***************************************************************************)
(* History kept beside the logger.  last: the call made last.  run: the    *)
(* invocations of deferred channels made since the queue and the staged    *)
(* message were both empty (ok is FALSE when anything else was called in   *)
(* between; closed, when a call of print has ended the run).  cycling:     *)
(* nothing but cycle_print and deferred channels was called since          *)
(* construction.  nregs: add_logging_type calls made after construction.   *)
(***************************************************************************)
Call(op, key, lvl, force) ==
  [op |-> op, key |-> key, lvl |-> lvl, force |-> force]

FreshRun(r) ==
  [ok |-> r.log_queue = << >> /\ r.queued_msg = << >>,
   calls |-> << >>,
   closed |-> FALSE]

\* The logger is the newly constructed r.
Constructed(r) ==
  /\ level = r.level
  /\ suppress_default_logger_warnings = r.suppress_default_logger_warnings
  /\ log_queue = r.log_queue
  /\ queued_msg = r.queued_msg
  /\ attrs = r.attrs
  /\ stdout = r.stdout
  /\ raised = r.raised
  /\ admitted = r.admitted
  /\ qAge = r.qAge
  /\ sAge = r.sAge
  /\ last = Call("init", << >>, 0, FALSE)
  /\ run = FreshRun(r)
  /\ cycling = TRUE
  /\ nregs = 0

\* What was passed to LogColor(...) and to the last change_color(...), if
\* there was one.
Made(spec, flags) ==
  [spec |-> spec, flags |-> flags, recolored |-> FALSE, to |-> spec]

\* A call of standard, plain or format and the string it returned.
Render(op, parts, join, flags, result) ==
  [op |-> op, parts |-> parts, join |-> join, flags |-> flags,
   result |-> result]
NoRender == Render("none", << >>, << >>, NoFlags, << >>)

\* LogColor(**spec, **flags)
NewLogColor(spec, flags) ==
  LogColor(spec.red, spec.green, spec.blue, spec.code,
           flags.bold, flags.italic, flags.underline, flags.blink,
           flags.strikethrough, flags.invert)

\* No LogColor object is used on its own.
NoStyle ==
  /\ style = PlainColor
  /\ made = Made(ColorArgs(None, None, None, None), NoFlags)
  /\ rendered = NoRender

\* Where the second thread is: the line of the source it executes next,
\* inside which method.
At(line, op) == [line |-> line, op |-> op]
Idle == At(0, "none")

\* No second thread.
NoThread ==
  /\ pc = Idle
  /\ late = {}
  /\ lost = {}

Init ==
  \E lvl \in Thresholds, defs \in InitialLists, suppress \in BOOLEAN :
    /\ Constructed(Logger(lvl, defs, suppress))
    /\ NoStyle
    /\ NoThread

\* getattr(logger, key)(*args, join=join): a registered channel is called.
\* A call that the threshold drops is always offered.
CallInvoke ==
  \E key \in DOMAIN attrs, args \in ArgChoices, join \in Joins, now \in Times :
    LET ch == attrs[key]
        r == dynamic_logger(Self, ch, args, join, now, 1)
        open == IF run.closed THEN FreshRun(Self) ELSE run
    IN  /\ ch.level < level \/ Len(admitted) + nregs < MaxCalls
        /\ Len(open.calls) < MaxCalls
        /\ Becomes(r)
        /\ last' = Call("invoke", key, ch.level, ch.force_immideate_print)
        /\ run' = IF ch.force_immideate_print THEN FreshRun(r)
                  ELSE IF open.ok
                  THEN [open EXCEPT !.calls =
                          Append(@, [lvl |-> ch.level,
                                     msg |-> IF ch.level >= level
                                             THEN Message(ch, args, join, now)
                                             ELSE << >>])]
                  ELSE open
        /\ cycling' = (cycling /\ ~ch.force_immideate_print)
        /\ UNCHANGED <<nregs, colorVars, threadVars>>

\* The method Logger.cycle_print is called; the messages that are still
\* pending afterwards have seen one more cycle.
CallCyclePrint ==
  LET r == cycle_print(Self)
  IN  /\ Becomes([r EXCEPT !.qAge = [i \in 1..Len(r.qAge) |-> r.qAge[i] + 1],
                           !.sAge = [i \in 1..Len(r.sAge) |-> r.sAge[i] + 1]])
      /\ last' = Call("cycle_print", << >>, 0, FALSE)
      /\ run' = FreshRun(r)
      /\ UNCHANGED <<cycling, nregs, colorVars, threadVars>>

\* The method Logger.print is called.
CallPrint ==
  LET r == print(Self)
  IN  /\ Becomes(r)
      /\ last' = Call("print", << >>, 0, FALSE)
      /\ run' = IF run.closed THEN FreshRun(r) ELSE [run EXCEPT !.closed = TRUE]
      /\ cycling' = FALSE
      /\ UNCHANGED <<nregs, colorVars, threadVars>>

\* logger.add_logging_type(name, level, color, force_immideate_print)
CallAddLoggingType ==
  \E c \in RegChoices :
    LET r == add_logging_type(Self, c.name, c.level, c.color,
                              c.force_immideate_print)
    IN  /\ Len(admitted) + nregs < MaxCalls
        /\ Becomes(r)
        /\ last' = Call("add_logging_type", c.name, c.level,
                        c.force_immideate_print)
        /\ run' = FreshRun(r)
        /\ cycling' = FALSE
        /\ nregs' = nregs + 1
        /\ UNCHANGED <<colorVars, threadVars>>

Next == CallInvoke \/ CallCyclePrint \/ CallPrint \/ CallAddLoggingType

Spec == Init /\ [][Next]_vars

(* --------------------- a logger made with defaults --------------------- *)

\* Thresholds of a logger constructed without channel definitions.
DefaultThresholds == {0, 100}

InitDefault ==
  \E lvl \in DefaultThresholds, suppress \in BOOLEAN :
    /\ Constructed(Logger_default(lvl, suppress))
    /\ NoStyle
    /\ NoThread

\* No channel is registered after construction.
NextDefault == CallInvoke \/ CallCyclePrint \/ CallPrint

SpecDefault == InitDefault /\ [][NextDefault]_vars

(* ------------------- two threads on the same logger -------------------- *)

(***************************************************************************)
(* One thread invokes deferred channels; a second thread calls print and   *)
(* cycle_print.  The interpreter switches threads between statements:      *)
(* list.append, the join of the queue and an assignment are each one step, *)
(* so the second thread is followed from statement to statement through    *)
(* __prepare_print, and the first thread may run between any two of them.  *)
(***************************************************************************)
InitThreads ==
  \E lvl \in Thresholds, defs \in InitialLists \ {<< >>} :
    /\ Constructed(Logger(lvl, defs, FALSE))
    /\ NoStyle
    /\ NoThread

histVars == <<last, run, cycling, nregs>>

\* First thread: a deferred channel is called.  A message appended while
\* the second thread is between the join and the reset is late.
ThreadInvoke ==
  \E key \in DOMAIN attrs, args \in ArgChoices, join \in Joins, now \in Times :
    LET ch == attrs[key]
        r == dynamic_logger(Self, ch, args, join, now, 1)
    IN  /\ ~ch.force_immideate_print
        /\ Len(admitted) < MaxCalls
        /\ Becomes(r)
        /\ late' = IF pc.line = 244 /\ Len(r.admitted) > Len(admitted)
                   THEN late \cup {Len(r.admitted)}
                   ELSE late
        /\ UNCHANGED <<pc, lost, histVars, colorVars>>

\* Second thread: print is entered (line 209 calls __prepare_print).
BeginPrint ==
  /\ pc = Idle
  /\ pc' = At(238, "print")
  /\ UNCHANGED <<loggerVars, late, lost, colorVars>>

\* Second thread: cycle_print is entered and tests the staged message
\* (line 203).
BeginCyclePrint ==
  /\ pc = Idle
  /\ pc' = IF queued_msg # << >> THEN At(247, "cycle_print")
           ELSE At(238, "cycle_print")
  /\ UNCHANGED <<loggerVars, late, lost, colorVars>>

\* Where the second thread goes when __prepare_print returns.
AfterPrepare(op) == IF op = "print" THEN At(247, op) ELSE Idle

\* Line 238: the length of the queue is tested.
TestQueue ==
  /\ pc.line = 238
  /\ pc' = IF Len(log_queue) > 0 THEN At(239, pc.op) ELSE AfterPrepare(pc.op)
  /\ UNCHANGED <<loggerVars, late, lost, colorVars>>

\* Lines 239-243: the queue is joined onto the staged message.
JoinQueue ==
  /\ pc.line = 239
  /\ Becomes(prepare_join(Self))
  /\ pc' = At(244, pc.op)
  /\ UNCHANGED <<late, lost, histVars, colorVars>>

\* Line 244: the queue is reset; the late messages go with it.
ResetQueue ==
  /\ pc.line = 244
  /\ Becomes(prepare_reset(Self))
  /\ pc' = AfterPrepare(pc.op)
  /\ lost' = lost \cup late
  /\ late' = {}
  /\ UNCHANGED <<histVars, colorVars>>

\* Lines 247-249: __execute_print.
Execute ==
  /\ pc.line = 247
  /\ Becomes(execute_print(Self))
  /\ pc' = Idle
  /\ UNCHANGED <<late, lost, histVars, colorVars>>

NextThreads ==
  \/ ThreadInvoke
  \/ BeginPrint
  \/ BeginCyclePrint
  \/ TestQueue
  \/ JoinQueue
  \/ ResetQueue
  \/ Execute

SpecThreads == InitThreads /\ [][NextThreads]_vars

(* ----------------------- a LogColor on its own ------------------------- *)

InitColors ==
  \E spec \in ColorSpecs, flags \in FlagSets :
    /\ style = NewLogColor(spec, flags)
    /\ made = Made(spec, flags)
    /\ rendered = NoRender
    /\ Constructed(Logger(0, << >>, FALSE))
    /\ NoThread

\* style.change_color(**spec)
CallChangeColor ==
  \E spec \in ColorSpecs :
    /\ style' = change_color(style, spec.red, spec.green, spec.blue, spec.code)
    /\ made' = [made EXCEPT !.recolored = TRUE, !.to = spec]
    /\ rendered' = NoRender
    /\ UNCHANGED <<loggerVars, threadVars>>

\* style.standard(*parts, join=join)
CallStandard ==
  \E parts \in PartChoices, join \in JoinChoices :
    /\ rendered' = Render("standard", parts, join, NoFlags,
                          standard(style, parts, join))
    /\ UNCHANGED <<style, made, loggerVars, threadVars>>

\* style.plain(*parts, join=join)
CallPlain ==
  \E parts \in PartChoices, join \in JoinChoices :
    /\ rendered' = Render("plain", parts, join, NoFlags,
                          plain(style, parts, join))
    /\ UNCHANGED <<style, made, loggerVars, threadVars>>

\* style.format(text, **flags)
CallFormat ==
  \E text \in {<<"x">>}, f \in FormatFlagSets :
    /\ rendered' = Render("format", <<text>>, << >>, f,
                          format(style, text, f.bold, f.italic, f.underline,
                                 f.blink, f.strikethrough, f.invert))
    /\ UNCHANGED <<style, made, loggerVars, threadVars>>

NextColors == CallChangeColor \/ CallStandard \/ CallPlain \/ CallFormat

SpecColors == InitColors /\ [][NextColors]_vars

(* ------------------------------ properties ----------------------------- *)

\* The strings a call of the channel bound under key can render.
Rendered(key) ==
  { Message(attrs[key], args, join, now) :
      args \in ArgChoices, join \in Joins, now \in Times }

\* The staged message after staging queue q onto staged message m.
Staged(m, q) ==
  IF q = << >> THEN m
  ELSE (IF m # << >> THEN m \o NEW_LINE ELSE m) \o Join(q, NEW_LINE)

EndsWith(str, suffix) ==
  /\ Len(suffix) <= Len(str)
  /\ SubSeq(str, Len(str) - Len(suffix) + 1, Len(str)) = suffix

\* The rendered messages of the calls of a run that the threshold admits.
RunAdmitted(calls) ==
  LET sel == SelectSeq(calls, LAMBDA c : c.lvl >= level)
  IN  [i \in 1..Len(sel) |-> sel[i].msg]

Invoked == last'.op = "invoke"

(* C1: invoking a channel whose level is below the threshold, deferred or  *)
(* force-immediate, with any arguments, changes neither the queue nor the  *)
(* staged message nor what was written.                                    *)
C1_BelowThresholdNoOp ==
  [][(Invoked /\ last'.lvl < level) =>
       /\ log_queue' = log_queue
       /\ queued_msg' = queued_msg
       /\ stdout' = stdout
       /\ raised' = "None"]_vars

\* A force-immediate channel below the threshold was invoked while a
\* message was waiting in the queue.
C1_Witness ==
  /\ last.op = "invoke" /\ last.lvl < level /\ last.force
  /\ log_queue # << >>

(* C2, as claimed: invoking any channel at or above the threshold appends  *)
(* exactly one rendered string, and the queue is one longer on return.     *)
C2_Original ==
  [][(Invoked /\ last'.lvl >= level) =>
       /\ Len(log_queue') = Len(log_queue) + 1
       /\ \E m \in Rendered(last'.key) : log_queue' = Append(log_queue, m)]_vars

(* C2, amended: invoking a channel at or above the threshold that is not   *)
(* force-immediate appends exactly one rendered string, the queue is one   *)
(* longer on return, and nothing is staged or written.                     *)
C2_DeferredAppendsOne ==
  [][(Invoked /\ last'.lvl >= level /\ ~last'.force) =>
       /\ Len(log_queue') = Len(log_queue) + 1
       /\ \E m \in Rendered(last'.key) : log_queue' = Append(log_queue, m)
       /\ queued_msg' = queued_msg
       /\ stdout' = stdout
       /\ raised' = "None"]_vars

\* A deferred channel whose level equals the threshold was invoked with a
\* message already in the queue.
C2_Witness ==
  /\ last.op = "invoke" /\ last.lvl = level /\ ~last.force
  /\ Len(log_queue) = 2

(* C3, as claimed: for every N and every staged message, print makes       *)
(* exactly one write, which ends with the N queued messages newline-joined *)
(* in queue order, and leaves the queue and the staged message empty.      *)
C3_Original ==
  [][last'.op = "print" =>
       /\ Len(stdout') = Len(stdout) + 1
       /\ EndsWith(stdout'[Len(stdout')], Join(log_queue, NEW_LINE))
       /\ log_queue' = << >>
       /\ queued_msg' = << >>]_vars

(* C3, amended: print makes exactly one write when a message is queued or  *)
(* staged: the staged message, then the queued messages newline-joined in  *)
(* queue order; with nothing queued and nothing staged it writes nothing.  *)
(* The queue and the staged message are empty afterwards.                  *)
C3_PrintFlushesAll ==
  [][last'.op = "print" =>
       /\ IF log_queue = << >> /\ queued_msg = << >>
          THEN stdout' = stdout
          ELSE stdout' = Append(stdout, Staged(queued_msg, log_queue))
       /\ log_queue' = << >>
       /\ queued_msg' = << >>
       /\ raised' = "None"]_vars

\* print has written one staged and one queued message in a single write.
C3_Witness ==
  /\ last.op = "print"
  /\ Len(admitted) = 2
  /\ admitted[1] # admitted[2]
  /\ stdout = << admitted[1] \o NEW_LINE \o admitted[2] >>
  /\ sAge = << >> /\ run.ok = FALSE

(* C4, as claimed: with batch 1 queued and nothing staged, cycle_print     *)
(* stages batch 1 and writes nothing; called again with batch 1 staged and *)
(* batch 2 queued, it writes batch 1 and stages batch 2.                   *)
C4_Original ==
  [][last'.op = "cycle_print" =>
       /\ (queued_msg = << >> /\ log_queue # << >>) =>
            /\ stdout' = stdout
            /\ queued_msg' = Join(log_queue, NEW_LINE)
            /\ log_queue' = << >>
       /\ (queued_msg # << >> /\ log_queue # << >>) =>
            /\ stdout' = Append(stdout, queued_msg)
            /\ queued_msg' = Join(log_queue, NEW_LINE)
            /\ log_queue' = << >>]_vars

(* C4, amended: the first call stages batch 1 and writes nothing; the      *)
(* second call writes batch 1 and stages nothing: on return the staged     *)
(* message is empty and the queue still holds batch 2.                     *)
C4_SecondCallOnlyWrites ==
  [][last'.op = "cycle_print" =>
       /\ (queued_msg = << >> /\ log_queue # << >>) =>
            /\ stdout' = stdout
            /\ queued_msg' = Join(log_queue, NEW_LINE)
            /\ log_queue' = << >>
       /\ (queued_msg # << >> /\ log_queue # << >>) =>
            /\ stdout' = Append(stdout, queued_msg)
            /\ queued_msg' = << >>
            /\ log_queue' = log_queue]_vars

\* After the second call: batch 1 is written, batch 2 is still queued.
C4_Witness ==
  /\ last.op = "cycle_print"
  /\ Len(admitted) = 2
  /\ stdout = << admitted[1] >>
  /\ log_queue = << admitted[2] >>
  /\ queued_msg = << >>

(* C5: cycle_print writes if and only if a message was staged when it was  *)
(* called; it then makes one write, of exactly that staged message.  With  *)
(* nothing staged it moves the queue into the staged message and writes    *)
(* nothing.                                                                *)
C5_CycleWritesIffStaged ==
  [][last'.op = "cycle_print" =>
       /\ (stdout' # stdout) <=> (queued_msg # << >>)
       /\ queued_msg # << >> => stdout' = Append(stdout, queued_msg)
       /\ queued_msg = << >> =>
            /\ queued_msg' = Staged(<< >>, log_queue)
            /\ log_queue' = << >>
       /\ raised' = "None"]_vars

\* cycle_print has written two messages that an earlier call had staged.
C5_Witness ==
  /\ last.op = "cycle_print"
  /\ Len(admitted) = 2
  /\ stdout = << Join(admitted, NEW_LINE) >>
  /\ queued_msg = << >>
  /\ log_queue = << >>

(* C6: invoking a force-immediate channel at or above the threshold makes  *)
(* one write before it returns: what was staged, what was queued and then  *)
(* the message just logged; the queue and the staged message are empty on  *)
(* return.                                                                 *)
C6_ForceImmediateFlushes ==
  [][(Invoked /\ last'.force /\ last'.lvl >= level) =>
       /\ \E m \in Rendered(last'.key) :
            stdout' = Append(stdout, Staged(queued_msg, Append(log_queue, m)))
       /\ log_queue' = << >>
       /\ queued_msg' = << >>]_vars

(* C7: from an empty queue and an empty staged message, a run of           *)
(* invocations of deferred channels followed by print makes one write when *)
(* a call of the run was at or above the threshold, and none otherwise;    *)
(* the write is exactly the rendered messages of those calls, newline-     *)
(* joined in invocation order, and nothing is left queued or staged.       *)
C7_RunThenPrint ==
  [][(last'.op = "print" /\ run.ok /\ ~run.closed) =>
       /\ IF RunAdmitted(run.calls) = << >>
          THEN stdout' = stdout
          ELSE stdout' = Append(stdout, Join(RunAdmitted(run.calls), NEW_LINE))
       /\ log_queue' = << >>
       /\ queued_msg' = << >>]_vars

\* print ended a run of a dropped call followed by an admitted call, and
\* the only write is the admitted message.
C7_Witness ==
  /\ last.op = "print"
  /\ run.ok /\ run.closed
  /\ Len(run.calls) = 2
  /\ run.calls[1].lvl < level
  /\ run.calls[2].lvl >= level
  /\ stdout = << run.calls[2].msg >>

(* C8: add_logging_type with a name that starts with two underscores       *)
(* prints one warning unless warnings are suppressed, and none for another *)
(* name; in every case the channel is bound under the case-folded name     *)
(* afterwards, and the queue and the staged message are unchanged.         *)
C8_PrivatePrefixWarns ==
  [][last'.op = "add_logging_type" =>
       /\ IF Prefix2(last'.key) = <<"_", "_">> /\ ~suppress_default_logger_warnings
          THEN stdout' = Append(stdout,
                 standard(DEFAULT_WARNING_LOG_COLOR, <<WARNING_TEXT>>, SPACE))
          ELSE stdout' = stdout
       /\ raised' = "None"
       /\ casefold(last'.key) \in DOMAIN attrs'
       /\ attrs'[casefold(last'.key)].name = last'.key
       /\ attrs'[casefold(last'.key)].level = last'.lvl
       /\ attrs'[casefold(last'.key)].force_immideate_print = last'.force
       /\ log_queue' = log_queue
       /\ queued_msg' = queued_msg]_vars

(* C9, as claimed: while only cycle_print and deferred channels are        *)
(* called, a message is written at the latest by the cycle_print call that *)
(* ends the cycle after the one it was queued in: no pending message has   *)
(* seen two cycle_print calls.                                             *)
C9_Original ==
  cycling =>
    /\ \A i \in 1..Len(qAge) : qAge[i] <= 1
    /\ \A i \in 1..Len(sAge) : sAge[i] <= 1

(* C9, amended: output lags by up to two cycles.  A message is written at  *)
(* the latest by the third cycle_print call made after it was queued: no   *)
(* pending message has seen three cycle_print calls, and one that has seen *)
(* two is staged.                                                          *)
C9_LagsAtMostTwoCycles ==
  /\ \A i \in 1..Len(qAge) : qAge[i] <= 1
  /\ \A i \in 1..Len(sAge) : sAge[i] <= 2

\* A message is still pending after the cycle_print calls that ended its
\* own cycle and the following one.
C9_Witness ==
  /\ cycling
  /\ last.op = "cycle_print"
  /\ \E i \in 1..Len(sAge) : sAge[i] = 2

(* C10: whatever names were registered, every invocation, cycle_print and  *)
(* print call returns normally, and after print or an invocation of a      *)
(* force-immediate channel at or above the threshold nothing is left       *)
(* queued or staged.                                                       *)
C10_NoFatalErrors ==
  /\ last.op \in {"invoke", "cycle_print", "print"} => raised = "None"
  /\ (last.op = "print" \/ (last.op = "invoke" /\ last.force /\ last.lvl >= level))
       => (log_queue = << >> /\ queued_msg = << >>)

(* ---------------------- properties: queue and sink -------------------- *)

\* The write that __logger_warning makes.
WarningWrite == standard(DEFAULT_WARNING_LOG_COLOR, <<WARNING_TEXT>>, SPACE)

\* The writes of messages, in write order.
Written == SelectSeq(stdout, LAMBDA w : w # WarningWrite)

\* A string neither starts nor ends with the separator.
NoOuterSeparator(str) ==
  str # << >> => (Head(str) # "\n" /\ str[Len(str)] # "\n")

(* C14: what was written (in write order), then what is staged, then what  *)
(* is queued, is the sequence of the admitted messages in invocation       *)
(* order, newline-joined: none is lost, duplicated or reordered, and none  *)
(* is both staged and queued.                                              *)
C14_AdmittedMessagesConserved ==
  Join(Written \o (IF queued_msg # << >> THEN <<queued_msg>> ELSE << >>)
         \o log_queue, NEW_LINE)
    = Join(admitted, NEW_LINE)

\* One message was written and a different one, admitted later, is staged.
C14_Witness ==
  /\ Len(admitted) = 2
  /\ Written = <<admitted[1]>>
  /\ queued_msg = admitted[2]
  /\ log_queue = << >>
  /\ admitted[1] # admitted[2]

(* C15: __prepare_print, called in any reachable state with a non-empty    *)
(* queue, makes the staged message its old content, one newline if that    *)
(* was non-empty, and the queued messages newline-joined in order, and     *)
(* empties the queue; with an empty queue it changes neither.  It writes   *)
(* nothing, and the staged message never starts or ends with a newline.    *)
C15_Stage ==
  LET r == prepare_print(Self)
  IN  /\ log_queue # << >> =>
            /\ r.queued_msg =
                 queued_msg \o (IF queued_msg # << >> THEN <<"\n">> ELSE << >>)
                   \o Join(log_queue, <<"\n">>)
            /\ r.log_queue = << >>
      /\ log_queue = << >> =>
            /\ r.queued_msg = queued_msg
            /\ r.log_queue = log_queue
      /\ r.stdout = stdout
      /\ NoOuterSeparator(queued_msg)
      /\ NoOuterSeparator(r.queued_msg)

\* A message was staged and another was queued since: the next call of
\* __prepare_print appends with a separator.
C15_Witness ==
  /\ queued_msg # << >> /\ log_queue # << >>
  /\ Len(admitted) = 2
  /\ queued_msg = admitted[1]

(* C16: __execute_print, called in any reachable state with a staged       *)
(* message, makes one write of exactly that message and leaves nothing     *)
(* staged; with nothing staged it writes nothing and changes nothing.  It  *)
(* leaves the queue alone, and no write is ever empty.                     *)
C16_Execute ==
  LET r == execute_print(Self)
  IN  /\ queued_msg # << >> =>
            /\ r.stdout = Append(stdout, queued_msg)
            /\ r.queued_msg = << >>
      /\ queued_msg = << >> => r = Self
      /\ r.log_queue = log_queue
      /\ \A i \in 1..Len(stdout) : stdout[i] # << >>

\* cycle_print wrote the staged message while another message was queued.
C16_Witness ==
  /\ last.op = "cycle_print"
  /\ Len(admitted) = 2
  /\ stdout = <<admitted[1]>>
  /\ queued_msg = << >>
  /\ log_queue = <<admitted[2]>>

(* ------------------------ properties: registry ------------------------ *)

(* C18: every channel is bound under the casefold of its name, so there is *)
(* one channel per case-folded name, and no call removes a channel.  A     *)
(* call of add_logging_type that returns binds the new channel under the   *)
(* casefold of its name, in place of the channel bound there before; it    *)
(* changes neither another channel nor the queue nor the staged message.   *)
(* No other call changes a channel, and an invocation admits and renders   *)
(* its message by the channel bound under the name when it is made.        *)
C18_RegistryReplacesByFoldedName ==
  /\ [](\A k \in DOMAIN attrs : casefold(attrs[k].name) = k)
  /\ [][/\ DOMAIN attrs \subseteq DOMAIN attrs'
        /\ (last'.op = "add_logging_type") =>
             (LET key == casefold(last'.key)
              IN  /\ \A k \in DOMAIN attrs \ {key} : attrs'[k] = attrs[k]
                  /\ (raised' = "None") =>
                        (/\ DOMAIN attrs' = DOMAIN attrs \cup {key}
                         /\ attrs'[key] \in RegChoices
                         /\ attrs'[key].name = last'.key
                         /\ attrs'[key].level = last'.lvl
                         /\ attrs'[key].force_immideate_print = last'.force)
                  /\ log_queue' = log_queue
                  /\ queued_msg' = queued_msg)
        /\ (last'.op # "add_logging_type") => (attrs' = attrs)
        /\ (Invoked /\ ~attrs[last'.key].force_immideate_print) =>
             (IF attrs[last'.key].level >= level
              THEN \E m \in Rendered(last'.key) :
                     log_queue' = Append(log_queue, m)
              ELSE log_queue' = log_queue)]_vars

\* DEBUG (level 100) was registered over Debug (level 0) and then invoked
\* under the name debug: the message queued is one of DEBUG.
C18_Witness ==
  /\ last.op = "invoke" /\ last.key = casefold(NameDebug)
  /\ last.lvl = 100
  /\ attrs[casefold(NameDebug)] = Channel(NameDEBUG, 100, PlainColor, FALSE)
  /\ casefold(NameWarning) \in DOMAIN attrs
  /\ log_queue = admitted /\ Len(log_queue) = 1

(* ------------------------ properties: two threads --------------------- *)

\* The admitted messages at the positions of `idx`, in invocation order.
AdmittedAt(idx) ==
  LET sel == SelectSeq([i \in 1..Len(admitted) |-> i], LAMBDA i : i \in idx)
  IN  [j \in 1..Len(sel) |-> admitted[sel[j]]]

(* C17: with a thread invoking channels while another runs print or        *)
(* cycle_print, a message appended between the join of the queue and its   *)
(* reset is discarded by the reset: from then on it is neither written nor *)
(* staged nor queued, while every other admitted message is written,       *)
(* staged or queued, in invocation order.                                  *)
C17_LateMessageIsLost ==
  LET kept == AdmittedAt((1..Len(admitted)) \ lost)
      staged == IF queued_msg # << >> THEN <<queued_msg>> ELSE << >>
      queued == IF pc.line = 244 THEN AdmittedAt(late) ELSE log_queue
  IN  /\ Join(Written \o staged \o queued, NEW_LINE) = Join(kept, NEW_LINE)
      /\ lost \cap late = {}
      /\ pc.line # 244 => late = {}

\* The second of two admitted messages was appended between the join and
\* the reset; the second thread has returned, the first message is written
\* and nothing is left staged or queued.
C17_Witness ==
  /\ pc = Idle
  /\ Len(admitted) = 2 /\ lost = {2}
  /\ stdout = <<admitted[1]>>
  /\ queued_msg = << >> /\ log_queue = << >>

(* --------------------- properties: default channels ------------------- *)

\* Name, level and force-immediate flag of the channels of the registry.
Registry ==
  { [name |-> attrs[k].name, level |-> attrs[k].level,
     force |-> attrs[k].force_immideate_print] : k \in DOMAIN attrs }

FiveChannels ==
  { [name |-> NameDebug, level |-> 0, force |-> FALSE],
    [name |-> NameInfo, level |-> 25, force |-> FALSE],
    [name |-> NameWarning, level |-> 50, force |-> FALSE],
    [name |-> NameError, level |-> 75, force |-> FALSE],
    [name |-> NameCritical, level |-> 100, force |-> TRUE] }

(* C13: a logger constructed without channel definitions has exactly the   *)
(* channels Debug(0), Info(25), Warning(50), Error(75) and Critical(100),   *)
(* only Critical force-immediate, an empty queue, nothing staged and        *)
(* nothing written.  While these are its channels and the threshold is at   *)
(* most 100, invoking Critical writes what was staged, what was queued and  *)
(* the new message in that call and leaves nothing pending; invoking one of *)
(* the other four writes nothing.                                           *)
C13_DefaultChannels ==
  /\ /\ Registry = FiveChannels
     /\ Cardinality(DOMAIN attrs) = 5
     /\ log_queue = << >> /\ queued_msg = << >> /\ stdout = << >>
  /\ [][(Invoked /\ Registry = FiveChannels /\ level <= 100) =>
          IF last'.key = casefold(NameCritical)
          THEN /\ \E m \in Rendered(last'.key) :
                    stdout' = Append(stdout,
                                     Staged(queued_msg, Append(log_queue, m)))
               /\ log_queue' = << >>
               /\ queued_msg' = << >>
          ELSE stdout' = stdout]_vars

\* Critical was invoked while a message of Error was queued, and one write
\* holds both messages.
C13_Witness ==
  /\ Registry = FiveChannels
  /\ last.op = "invoke" /\ last.key = casefold(NameCritical)
  /\ Len(admitted) = 2
  /\ admitted[1] \in Rendered(casefold(NameError))
  /\ stdout = <<Join(admitted, NEW_LINE)>>
  /\ log_queue = << >> /\ queued_msg = << >>

(* ------------------------- properties: LogColor ------------------------ *)

\* The color sequence of a color spec: the 24-bit foreground sequence of
\* its RGB triple when it has one, else its palette code, else the
\* neutral reset color.
ColorSequence(spec) ==
  IF spec.red # None /\ spec.green # None /\ spec.blue # None
  THEN <<"\\033[", "3", "8", ";", "2", ";">> \o Dec(spec.red) \o <<";">>
         \o Dec(spec.green) \o <<";">> \o Dec(spec.blue)
  ELSE IF spec.code # None THEN <<"\\033[">> \o Dec(spec.code)
  ELSE <<"\\033[", "0">>

\* The codes of the flags that are set.
ModifierCodes(flags) ==
  LET code(on, c) == IF on THEN <<";", c>> ELSE << >>
  IN  code(flags.bold, "1") \o code(flags.italic, "3")
        \o code(flags.underline, "4") \o code(flags.blink, "5")
        \o code(flags.strikethrough, "9") \o code(flags.invert, "7")

\* The universal reset sequence.
ResetSequence == <<"\\033[", "0", "m">>

\* What a render call returns when it uses color spec `spec`.
RenderedWith(spec) ==
  CASE rendered.op = "standard" ->
         ColorSequence(spec) \o ModifierCodes(made.flags) \o <<"m">>
           \o Join(rendered.parts, rendered.join) \o ResetSequence
    [] rendered.op = "plain" ->
         ColorSequence(spec) \o <<"m">>
           \o Join(rendered.parts, rendered.join) \o ResetSequence
    [] rendered.op = "format" ->
         ColorSequence(spec) \o ModifierCodes(rendered.flags) \o <<"m">>
           \o rendered.parts[1] \o ResetSequence

\* C11: after change_color, every render call (standard, plain, format)
\* returns a string built with the new color -- for an RGB triple the
\* prefix the constructor would build for it -- and, for standard, with
\* the modifiers given at construction.
C11_RecolorTakesEffect ==
  (made.recolored /\ rendered.op # "none") =>
    rendered.result = RenderedWith(made.to)

\* C12: on a LogColor as constructed, standard(*parts, join) returns the
\* color sequence of the constructor's color spec (the RGB triple when both
\* a triple and a code are given, the neutral color when neither is), the
\* codes of the set flags, "m", the parts joined by join, and the reset
\* sequence.
C12_StandardRendersCachedPrefix ==
  (~made.recolored /\ rendered.op = "standard") =>
    rendered.result = RenderedWith(made.spec)

\* standard was called with two parts and a join of its own on a LogColor
\* made with an RGB triple, a code, and four flags.
C12_Witness ==
  /\ ~made.recolored /\ rendered.op = "standard"
  /\ made.spec = ColorArgs(1, 2, 3, 31)
  /\ made.flags = Flags(TRUE, FALSE, TRUE, FALSE, TRUE, TRUE)
  /\ Len(rendered.parts) = 2 /\ rendered.join = <<", ">>

====
